---- MODULE Spec2Model ----
(***************************************************************************)
(* Model of the document rendering engine of src/pdf_generator.py:         *)
(* create_pdf, create_cover_page, parse_content_to_pdf, create_code_block  *)
(* and process_inline_markdown.  Text is a sequence of one-character       *)
(* strings, so that trimming, pattern matching, escaping and substitution  *)
(* are computed character by character as the Python code computes them.   *)
(***************************************************************************)
EXTENDS Integers, Sequences, FiniteSets, TLC

VARIABLES
    student_info,       \* create_pdf argument: the metadata dictionary
    assignment_content, \* create_pdf argument: the text, one string
    include_refs,       \* create_pdf argument: the advisory flag
    logo_data,          \* create_pdf argument: "none", "good" or "bad" bytes
    pc,                 \* position of the create_pdf call
    today,              \* the date datetime.now() gave the cover page
    doc_story,          \* create_pdf's story list
    lines,              \* parse_content_to_pdf: assignment_content.splitlines()
    idx,                \* parse_content_to_pdf: number of lines consumed by the loop
    in_code_block,      \* parse_content_to_pdf local
    code_lines,         \* parse_content_to_pdf local
    code_language,      \* parse_content_to_pdf local
    in_references,      \* parse_content_to_pdf local
    story,              \* parse_content_to_pdf's story list
    page_count,         \* pages the layout of doc.build produced so far
    canvas,             \* what the page callbacks drew, in order
    buffer,             \* the BytesIO: what was written and the read position
    twin,               \* a second call, stepped next to the first
    rendered,           \* the result of a formatter called on its own
    styles,             \* create_pdf local: the dictionary get_pdf_styles returned
    session             \* the application around create_pdf: clock, cache, pdf_data

vars == <<student_info, assignment_content, include_refs, logo_data, pc, today,
          doc_story, lines, idx, in_code_block, code_lines, code_language,
          in_references, story, page_count, canvas, buffer, twin, rendered,
          styles, session>>

inputVars == <<student_info, assignment_content, include_refs, logo_data>>
parserVars == <<lines, idx, in_code_block, code_lines, code_language,
                in_references, story>>
buildVars == <<page_count, canvas, buffer>>

----------------------------------------------------------------------------
(* Characters and strings *)

\* SANY reads neither a backtick nor a non-ASCII character inside a string:
\* these two characters go by name, every other character is itself
Backtick == "BACKTICK"
BulletGlyph == "BULLET"

Whitespace == {" ", "\t"}

Digits == {"0", "1", "2", "3", "4", "5", "6", "7", "8", "9"}

LowerLetters == <<"a","b","c","d","e","f","g","h","i","j","k","l","m",
                  "n","o","p","q","r","s","t","u","v","w","x","y","z">>

UpperLetters == <<"A","B","C","D","E","F","G","H","I","J","K","L","M",
                  "N","O","P","Q","R","S","T","U","V","W","X","Y","Z">>

\* str.upper() on one character
UpperChar(c) ==
    IF \E i \in 1..26 : LowerLetters[i] = c
    THEN UpperLetters[CHOOSE i \in 1..26 : LowerLetters[i] = c]
    ELSE c

\* str.lower() on one character (what re.IGNORECASE compares)
LowerChar(c) ==
    IF \E i \in 1..26 : UpperLetters[i] = c
    THEN LowerLetters[CHOOSE i \in 1..26 : UpperLetters[i] = c]
    ELSE c

upper(s) == [i \in 1..Len(s) |-> UpperChar(s[i])]

lower(s) == [i \in 1..Len(s) |-> LowerChar(s[i])]

\* s[from:] of Python, with a 1-based first index
Tail_from(s, from) == SubSeq(s, from, Len(s))

\* str.startswith
startswith(s, p) == Len(s) >= Len(p) /\ SubSeq(s, 1, Len(p)) = p

\* index of the first character of s at or after from that is in the set cs,
\* Len(s)+1 when there is none
FirstIn(s, from, cs) ==
    IF \E k \in from..Len(s) : s[k] \in cs
    THEN CHOOSE k \in from..Len(s) :
            s[k] \in cs /\ \A j \in from..(k-1) : s[j] \notin cs
    ELSE Len(s) + 1

\* index of the first character of s at or after from that is not in cs,
\* Len(s)+1 when there is none
FirstNotIn(s, from, cs) ==
    IF \E k \in from..Len(s) : s[k] \notin cs
    THEN CHOOSE k \in from..Len(s) :
            s[k] \notin cs /\ \A j \in from..(k-1) : s[j] \in cs
    ELSE Len(s) + 1

\* str.strip(): leading and trailing whitespace removed
strip(s) ==
    LET a == FirstNotIn(s, 1, Whitespace)
        b == IF a > Len(s) THEN 0
             ELSE CHOOSE k \in a..Len(s) :
                    s[k] \notin Whitespace
                    /\ \A j \in (k+1)..Len(s) : s[j] \in Whitespace
    IN  SubSeq(s, a, b)

\* str.splitlines(): split at line ends, no empty last line after a final "\n"
RECURSIVE splitlines(_)
splitlines(s) ==
    IF s = <<>> THEN <<>>
    ELSE LET k == FirstIn(s, 1, {"\n"})
         IN  IF k > Len(s) THEN <<s>>
             ELSE <<SubSeq(s, 1, k-1)>> \o splitlines(Tail_from(s, k+1))

\* str.replace(old, new) for a one-character old
RECURSIVE replace(_, _, _)
replace(s, old, new) ==
    IF s = <<>> THEN <<>>
    ELSE (IF s[1] = old THEN new ELSE <<s[1]>>) \o replace(Tail(s), old, new)

\* str.replace(old, new) for a string old: every occurrence, left to right,
\* not overlapping
RECURSIVE replace_str(_, _, _)
replace_str(s, old, new) ==
    IF s = <<>> THEN <<>>
    ELSE IF startswith(s, old)
         THEN new \o replace_str(Tail_from(s, Len(old) + 1), old, new)
         ELSE <<s[1]>> \o replace_str(Tail(s), old, new)

\* str(n) for a natural number
RECURSIVE str(_)
str(n) ==
    LET d == <<"0", "1", "2", "3", "4", "5", "6", "7", "8", "9">>
    IN  IF n < 10 THEN <<d[n + 1]>> ELSE str(n \div 10) \o <<d[(n % 10) + 1]>>

----------------------------------------------------------------------------
(* Escaping and inline markdown *)

Amp == <<"&","a","m","p",";">>
Lt == <<"&","l","t",";">>
Gt == <<"&","g","t",";">>

\* the ordering mistake: '&' replaced last, so the '&' of an entity the
\* earlier passes produced is replaced again
EscapeAmpLast(s) == replace(replace(replace(s, "<", Lt), ">", Gt), "&", Amp)

\* .replace('&', '&amp;').replace('<', '&lt;').replace('>', '&gt;')
Escape(s) == replace(replace(replace(s, "&", Amp), "<", Lt), ">", Gt)

\* f"___CODE_{n}___"
Placeholder(n) == <<"_","_","_","C","O","D","E","_">> \o str(n) \o <<"_","_","_">>

InlineFontOpen == <<"<","f","o","n","t"," ","n","a","m","e","=","\"","C","o","u","r","i","e","r","\""," ","c","o","l","o","r","=","\"","#","e","8","3","e","8","c","\""," ","b","a","c","k","C","o","l","o","r","=","\"","#","f","8","f","9","f","a","\"",">"," ">>
InlineFontClose == <<" ","<","/","f","o","n","t",">">>

\* re.sub of line 205 with save_code: the text with every code span (a
\* backtick, one or more characters that are not backticks, a backtick)
\* replaced by its placeholder, and the list save_code collected.  n is
\* len(code_snippets) when the scan reaches s.
RECURSIVE save_code(_, _)
save_code(s, n) ==
    IF s = <<>> THEN [text |-> <<>>, code_snippets |-> <<>>]
    ELSE LET k == FirstIn(s, 2, {Backtick})
         IN  IF s[1] = Backtick /\ k <= Len(s) /\ k >= 3
             THEN LET rest == save_code(Tail_from(s, k + 1), n + 1)
                  IN  [text |-> Placeholder(n) \o rest.text,
                       code_snippets |-> <<SubSeq(s, 2, k - 1)>> \o rest.code_snippets]
             ELSE LET rest == save_code(Tail(s), n)
                  IN  [text |-> <<s[1]>> \o rest.text,
                       code_snippets |-> rest.code_snippets]

\* the scan of re.sub for the pattern of line 208 with the character class
\* of its run as stops: two asterisks, one or more characters not in stops,
\* two asterisks become a b tag around the run
RECURSIVE bold_runs_without(_, _)
bold_runs_without(s, stops) ==
    IF s = <<>> THEN <<>>
    ELSE LET k == FirstIn(s, 3, stops)
         IN  IF /\ Len(s) >= 5 /\ s[1] = "*" /\ s[2] = "*" /\ s[3] \notin stops
                /\ k < Len(s) /\ s[k] = "*" /\ s[k + 1] = "*"
             THEN <<"<", "b", ">">> \o SubSeq(s, 3, k - 1) \o <<"<", "/", "b", ">">>
                  \o bold_runs_without(Tail_from(s, k + 2), stops)
             ELSE <<s[1]>> \o bold_runs_without(Tail(s), stops)

\* bold detection that stops at a placeholder: the run between the asterisk
\* pairs holds neither an asterisk nor the underscore of a placeholder
sub_bold_within_prose(s) == bold_runs_without(s, {"*", "_"})

\* re.sub of line 208: two asterisks, one or more characters that are not
\* asterisks, two asterisks become a b tag around the run
sub_bold(s) == bold_runs_without(s, {"*"})

\* the scan of re.sub for the pattern of line 211: an asterisk, one or more
\* characters that are not asterisks, an asterisk become an i tag around the
\* run; with bounded, the first asterisk is not preceded and the second not
\* followed by an asterisk (the lookbehind and the lookahead of the
\* pattern).  prev is the character before s in the text the scan runs over
\* ("" at its start)
RECURSIVE italic_scan(_, _, _)
italic_scan(s, prev, bounded) ==
    IF s = <<>> THEN <<>>
    ELSE LET k == FirstIn(s, 2, {"*"})
         IN  IF /\ Len(s) >= 3 /\ s[1] = "*" /\ s[2] # "*" /\ k <= Len(s)
                /\ bounded => /\ prev # "*"
                               /\ (k = Len(s) \/ s[k + 1] # "*")
             THEN <<"<", "i", ">">> \o SubSeq(s, 2, k - 1) \o <<"<", "/", "i", ">">>
                  \o italic_scan(Tail_from(s, k + 1), "*", bounded)
             ELSE <<s[1]>> \o italic_scan(Tail(s), s[1], bounded)

\* italic detection without the lookbehind and the lookahead
sub_italic_unbounded(s) == italic_scan(s, "", FALSE)

\* re.sub of line 211: an asterisk not preceded by an asterisk, one or more
\* characters that are not asterisks, an asterisk not followed by an asterisk
\* become an i tag around the run
sub_italic(s) == italic_scan(s, "", TRUE)

\* the loop of lines 214-217, from snippet i+1 (i = 0 for the whole loop)
RECURSIVE restore_code(_, _, _)
restore_code(text, code_snippets, i) ==
    IF i >= Len(code_snippets) THEN text
    ELSE restore_code(
            replace_str(text, Placeholder(i),
                InlineFontOpen \o Escape(code_snippets[i + 1]) \o InlineFontClose),
            code_snippets, i + 1)

\* the formatter without lines 199-205 and 213-217: code spans are neither
\* set aside nor formatted
process_inline_markdown_no_code(text) == sub_italic(sub_bold(text))

process_inline_markdown(text) ==
    LET saved == save_code(text, 0)
    IN  restore_code(sub_italic(sub_bold(saved.text)), saved.code_snippets, 0)

----------------------------------------------------------------------------
(* Layout elements: what the reportlab constructors are given *)

\* the names of the dictionary get_pdf_styles returns
StyleNames == {"title", "subtitle", "heading1", "heading2", "heading3",
               "body", "bullet", "numbered", "code", "reference"}

\* Spacer(1, h * inch)
Spacer(h) == [kind |-> "Spacer", style |-> "", text |-> <<h>>, rows |-> <<>>]

\* Paragraph(text, styles[style])
Paragraph(text, style) ==
    [kind |-> "Paragraph", style |-> style, text |-> text, rows |-> <<>>]

\* a plain string in a table cell
Cell(text) == [kind |-> "str", style |-> "", text |-> text, rows |-> <<>>]

\* Table(data, ...): data is a list of rows, a row a list of cells
Table(data) == [kind |-> "Table", style |-> "", text |-> <<>>, rows |-> data]

PageBreak == [kind |-> "PageBreak", style |-> "", text |-> <<>>, rows |-> <<>>]

\* reportlab's Table constructor raises ValueError ("must have at least a row
\* and column") for data without rows: rl_config.emptyTableAction is 'error'
\* unless an application changes it, and this one does not
TableRaises(data) == Len(data) = 0

----------------------------------------------------------------------------
(* create_code_block *)

HeaderFontOpen == <<"<","f","o","n","t"," ","c","o","l","o","r","=","\"","#","f","f","f","f","f","f","\""," ","n","a","m","e","=","\"","H","e","l","v","e","t","i","c","a","-","B","o","l","d","\""," ","s","i","z","e","=","\"","9","\"",">">>
CodeFontOpen == <<"<","f","o","n","t"," ","n","a","m","e","=","\"","C","o","u","r","i","e","r","\""," ","s","i","z","e","=","\"","9","\""," ","c","o","l","o","r","=","\"","#","2","1","2","5","2","9","\"",">">>
FontClose == <<"<","/","f","o","n","t",">">>

\* the tag shown as it was typed, without upper()
header_text_as_typed(language) ==
    <<" ">> \o (IF language # <<>> THEN language ELSE <<"C","O","D","E">>)

\* line 228: f" {language.upper() if language else 'CODE'}"
header_text(language) ==
    <<" ">> \o (IF language # <<>> THEN upper(language) ELSE <<"C","O","D","E">>)

\* lines 247-255: the row of one captured line
code_row(line) ==
    LET shown == IF strip(line) = <<>> THEN <<" ">> ELSE line
    IN  <<Paragraph(CodeFontOpen \o Escape(shown) \o FontClose, "code")>>

\* the elements create_code_block returns, or raised = TRUE when one of its
\* constructors raises
create_code_block(lines_, language) ==
    LET header_para == Paragraph(HeaderFontOpen \o header_text(language) \o FontClose, "code")
        code_rows == [i \in 1..Len(lines_) |-> code_row(lines_[i])]
    IN  IF TableRaises(code_rows)
        THEN [raised |-> TRUE, elements |-> <<>>]
        ELSE [raised |-> FALSE,
              elements |-> << Table(<< <<header_para>> >>),
                              Table(code_rows),
                              Table(<< <<Cell(<<>>)>> >>),
                              Spacer("0.12") >>]

----------------------------------------------------------------------------
(* parse_content_to_pdf: the patterns of the loop body *)

Fence == <<Backtick, Backtick, Backtick>>

\* line 298: stripped.startswith of three backticks
is_fence(stripped) == startswith(stripped, Fence)

RefsWords == {<<"r","e","f","e","r","e","n","c","e">>,
              <<"r","e","f","e","r","e","n","c","e","s">>,
              <<"b","i","b","l","i","o","g","r","a","p","h","y">>}

\* the references test made on headings only: one to four '#', whitespace,
\* then references or bibliography
refs_match_heading_only(stripped) ==
    LET a == FirstNotIn(stripped, 1, {"#"})
        b == FirstNotIn(stripped, a, Whitespace)
    IN  /\ a >= 2 /\ a <= 5 /\ b > a
        /\ lower(Tail_from(stripped, b))
              \in {<<"r","e","f","e","r","e","n","c","e","s">>,
                   <<"b","i","b","l","i","o","g","r","a","p","h","y">>}

\* line 319: one or more '#', any whitespace, then reference, references or
\* bibliography up to the end of the line, letter case ignored
refs_match(stripped) ==
    LET a == FirstNotIn(stripped, 1, {"#"})
        b == FirstNotIn(stripped, a, Whitespace)
    IN  a >= 2 /\ lower(Tail_from(stripped, b)) \in RefsWords

\* line 325: one to four '#', one or more whitespace, one or more characters
heading_level(stripped) == FirstNotIn(stripped, 1, {"#"}) - 1

heading_match(stripped) ==
    LET level == heading_level(stripped)
    IN  /\ level >= 1 /\ level <= 4
        /\ level + 1 <= Len(stripped) /\ stripped[level + 1] \in Whitespace
        /\ FirstNotIn(stripped, level + 1, Whitespace) <= Len(stripped)

\* line 328 without its second replace: only the pairs of asterisks go
heading_text_pairs_only(stripped) ==
    LET group2 == Tail_from(stripped,
                      FirstNotIn(stripped, heading_level(stripped) + 1, Whitespace))
    IN  replace_str(group2, <<"*", "*">>, <<>>)

\* line 328: group 2 with '**' and then '*' removed
heading_text(stripped) ==
    LET group2 == Tail_from(stripped,
                      FirstNotIn(stripped, heading_level(stripped) + 1, Whitespace))
    IN  replace(replace_str(group2, <<"*", "*">>, <<>>), "*", <<>>)

\* one style per heading level: a level 4 heading asks for a style the
\* registry does not hold
heading_style_per_level(level) ==
    IF level = 1 THEN "heading1"
    ELSE IF level = 2 THEN "heading2"
    ELSE IF level = 3 THEN "heading3"
    ELSE "heading4"

\* lines 330-337: the style of a heading of the level
heading_style(level) ==
    IF level = 1 THEN "heading1"
    ELSE IF level = 2 THEN "heading1"
    ELSE IF level = 3 THEN "heading2"
    ELSE "heading3"

\* line 341: '-', '*' or '+', then one or more whitespace
bullet_match(stripped) ==
    /\ Len(stripped) >= 2
    /\ stripped[1] \in {"-", "*", "+"}
    /\ stripped[2] \in Whitespace

\* line 342: the marker and its whitespace replaced by the glyph and a space
bullet_text(stripped) ==
    <<BulletGlyph, " ">> \o Tail_from(stripped, FirstNotIn(stripped, 2, Whitespace))

\* line 348: one or more digits, '.', one or more whitespace
numbered_match(stripped) ==
    LET d == FirstNotIn(stripped, 1, Digits)
    IN  /\ d >= 2 /\ d + 1 <= Len(stripped)
        /\ stripped[d] = "." /\ stripped[d + 1] \in Whitespace

\* the tests of the loop body with the references test ahead of the test
\* for being inside a code block: a references heading is recognised inside
\* a fence too
line_kind_fence_transparent(in_code, line) ==
    LET stripped == strip(line)
    IN  IF is_fence(stripped) THEN (IF in_code THEN "fence_close" ELSE "fence_open")
        ELSE IF stripped # <<>> /\ refs_match(stripped) THEN "references"
        ELSE IF in_code THEN "code"
        ELSE IF stripped = <<>> THEN "blank"
        ELSE IF heading_match(stripped) THEN "heading"
        ELSE IF bullet_match(stripped) THEN "bullet"
        ELSE IF numbered_match(stripped) THEN "numbered"
        ELSE "paragraph"

\* the category the loop body puts a line in, by the order of its tests
line_kind(in_code, line) ==
    LET stripped == strip(line)
    IN  IF is_fence(stripped) THEN (IF in_code THEN "fence_close" ELSE "fence_open")
        ELSE IF in_code THEN "code"
        ELSE IF stripped = <<>> THEN "blank"
        ELSE IF refs_match(stripped) THEN "references"
        ELSE IF heading_match(stripped) THEN "heading"
        ELSE IF bullet_match(stripped) THEN "bullet"
        ELSE IF numbered_match(stripped) THEN "numbered"
        ELSE "paragraph"

\* the locals kept from call to call, as module globals would be: a call
\* starts from whatever the parser state holds at that moment
parser_start_shared ==
    [in_code_block |-> in_code_block, code_lines |-> code_lines,
     code_language |-> code_language, in_references |-> in_references,
     story |-> story, raised |-> FALSE]

\* the locals of parse_content_to_pdf after lines 286-292
parser_start ==
    [in_code_block |-> FALSE, code_lines |-> <<>>, code_language |-> <<>>,
     in_references |-> FALSE, story |-> <<>>, raised |-> FALSE]

\* the latch scoped to its section: a heading that is not the references
\* heading takes in_references back
heading_step_scoped(st, stripped) ==
    [st EXCEPT !.in_references = FALSE,
               !.story = Append(@, Paragraph(heading_text(stripped),
                                    heading_style(heading_level(stripped))))]

\* lines 325-338
heading_step(st, stripped) ==
    [st EXCEPT !.story = Append(@, Paragraph(heading_text(stripped),
                                    heading_style(heading_level(stripped))))]

\* the references heading echoed as it was typed, in the style of its level
references_step_echo(st, stripped) ==
    [st EXCEPT !.in_references = TRUE,
               !.story = Append(@, Paragraph(
                    Tail_from(stripped,
                        FirstNotIn(stripped, FirstNotIn(stripped, 1, {"#"}), Whitespace)),
                    heading_style(heading_level(stripped))))]

\* lines 319-322
references_step(st, stripped) ==
    [st EXCEPT !.in_references = TRUE,
               !.story = Append(@, Paragraph(<<"R","e","f","e","r","e","n","c","e","s">>, "heading1"))]

\* one pass of the loop body, lines 295-358, on the locals st
parse_line(st, line) ==
    LET stripped == strip(line)
        kind == line_kind(st.in_code_block, line)
    IN  IF kind = "fence_open"
        THEN [st EXCEPT !.in_code_block = TRUE,
                        !.code_language = strip(Tail_from(stripped, 4)),
                        !.code_lines = <<>>]
        ELSE IF kind = "fence_close"
        THEN LET block == create_code_block(st.code_lines, st.code_language)
             IN  IF block.raised
                 THEN [st EXCEPT !.in_code_block = FALSE, !.raised = TRUE]
                 ELSE [st EXCEPT !.in_code_block = FALSE,
                                 !.story = @ \o block.elements,
                                 !.code_lines = <<>>]
        ELSE IF kind = "code"
        THEN [st EXCEPT !.code_lines = Append(@, line)]
        ELSE IF kind = "blank"
        THEN [st EXCEPT !.story = Append(@, Spacer("0.08"))]
        ELSE IF kind = "references"
        THEN references_step(st, stripped)
        ELSE IF kind = "heading"
        THEN heading_step(st, stripped)
        ELSE IF kind = "bullet"
        THEN [st EXCEPT !.story = Append(@,
                 Paragraph(process_inline_markdown(bullet_text(stripped)), "bullet"))]
        ELSE IF kind = "numbered"
        THEN [st EXCEPT !.story = Append(@,
                 Paragraph(process_inline_markdown(stripped),
                           IF st.in_references THEN "reference" ELSE "numbered"))]
        ELSE [st EXCEPT !.story = Append(@,
                 Paragraph(process_inline_markdown(stripped), "body"))]

----------------------------------------------------------------------------
(* create_cover_page *)

\* dict.get(key) or "": the default the caller names is not used
get_or_blank(d, key, default) == IF key \in DOMAIN d THEN d[key] ELSE <<>>

\* dict.get(key, default)
get(d, key, default) == IF key \in DOMAIN d THEN d[key] ELSE default

\* the cover page without line 192: the content goes on below the rule
create_cover_page_no_break(info, today_) ==
    << Spacer("0.4"),
       Paragraph(upper(get(info, "university", <<"U","N","I","V","E","R","S","I","T","Y">>)), "title"),
       Spacer("0.1"),
       Paragraph(<<"A","C","A","D","E","M","I","C"," ","A","S","S","I","G","N","M","E","N","T">>, "subtitle"),
       Paragraph(get(info, "subject", <<>>), "subtitle"),
       Spacer("0.15"),
       Table(<< <<Cell(<<"S","t","u","d","e","n","t"," ","N","a","m","e",":">>), Cell(get(info, "name", <<>>))>>,
                <<Cell(<<"S","t","u","d","e","n","t"," ","I","D",":">>), Cell(get(info, "id", <<>>))>>,
                <<Cell(<<"P","r","o","g","r","a","m",":">>), Cell(get(info, "program", <<>>))>>,
                <<Cell(<<"I","n","s","t","r","u","c","t","o","r",":">>), Cell(get(info, "instructor", <<"N","/","A">>))>>,
                <<Cell(<<"S","e","m","e","s","t","e","r"," ","/"," ","T","e","r","m",":">>), Cell(get(info, "semester", <<"N","/","A">>))>>,
                <<Cell(<<"S","u","b","m","i","s","s","i","o","n"," ","D","a","t","e",":">>), Cell(today_)>> >>),
       Spacer("0.3"),
       Paragraph([i \in 1..80 |-> "_"], "reference"),
       Spacer("0.2") >>

\* lines 155-194; today is datetime.now().strftime("%B %d, %Y")
create_cover_page(info, today_) ==
    << Spacer("0.4"),
       Paragraph(upper(get(info, "university", <<"U","N","I","V","E","R","S","I","T","Y">>)), "title"),
       Spacer("0.1"),
       Paragraph(<<"A","C","A","D","E","M","I","C"," ","A","S","S","I","G","N","M","E","N","T">>, "subtitle"),
       Paragraph(get(info, "subject", <<>>), "subtitle"),
       Spacer("0.15"),
       Table(<< <<Cell(<<"S","t","u","d","e","n","t"," ","N","a","m","e",":">>), Cell(get(info, "name", <<>>))>>,
                <<Cell(<<"S","t","u","d","e","n","t"," ","I","D",":">>), Cell(get(info, "id", <<>>))>>,
                <<Cell(<<"P","r","o","g","r","a","m",":">>), Cell(get(info, "program", <<>>))>>,
                <<Cell(<<"I","n","s","t","r","u","c","t","o","r",":">>), Cell(get(info, "instructor", <<"N","/","A">>))>>,
                <<Cell(<<"S","e","m","e","s","t","e","r"," ","/"," ","T","e","r","m",":">>), Cell(get(info, "semester", <<"N","/","A">>))>>,
                <<Cell(<<"S","u","b","m","i","s","s","i","o","n"," ","D","a","t","e",":">>), Cell(today_)>> >>),
       Spacer("0.3"),
       Paragraph([i \in 1..80 |-> "_"], "reference"),
       Spacer("0.2"),
       PageBreak >>

----------------------------------------------------------------------------
(* create_pdf: the page callback *)

\* doc.build without onFirstPage: the first page gets reportlab's default,
\* which draws nothing
onFirstPage_default == "none"

\* line 408: the callbacks doc.build is given
onFirstPage == "add_page_elements"
onLaterPages == "add_page_elements"

\* the handler without its try/except: a logo that cannot be drawn raises
add_page_elements_no_try(page_num, logo) ==
    [raised |-> logo = "bad",
     drawn |-> << [op |-> "drawRightString", page |-> page_num,
                   text |-> <<"P","a","g","e"," ">> \o str(page_num)],
                  [op |-> "line", page |-> page_num, text |-> <<>>] >>
               \o (IF logo = "good"
                   THEN <<[op |-> "drawOn", page |-> page_num, text |-> <<>>]>>
                   ELSE <<>>)]

\* lines 389-406: what one call of add_page_elements draws on the page the
\* canvas is at, and whether an exception leaves it.  logo is "none" (no
\* bytes), "good" (bytes of an image) or "bad" (bytes RLImage cannot draw).
add_page_elements(page_num, logo) ==
    [raised |-> FALSE,
     drawn |-> << [op |-> "drawRightString", page |-> page_num,
                   text |-> <<"P","a","g","e"," ">> \o str(page_num)],
                  [op |-> "line", page |-> page_num, text |-> <<>>] >>
               \o (IF logo = "good"
                   THEN <<[op |-> "drawOn", page |-> page_num, text |-> <<>>]>>
                   ELSE <<>>)]

----------------------------------------------------------------------------
(* Inputs *)

MaxLines == 3
MaxPages == 3

\* the lines the texts are built from: both fence forms, a blank and a
\* whitespace-only line, a references heading, a heading with markup, a
\* numbered, a bullet and a plain line with characters to escape
LinePool ==
    { <<Backtick,Backtick,Backtick>>,
      <<Backtick,Backtick,Backtick,"p","y">>,
      <<>>,
      <<" "," ">>,
      <<"#","#"," ","R","e","f","e","r","e","n","c","e","s">>,
      <<"#","#","#"," ","A","*","b","*">>,
      <<"1","."," ","x">>,
      <<"-"," ","x">>,
      <<" ","a","<","&">> }

\* "\n".join(ls)
RECURSIVE join(_)
join(ls) ==
    IF ls = <<>> THEN <<>>
    ELSE IF Len(ls) = 1 THEN ls[1]
    ELSE ls[1] \o <<"\n">> \o join(Tail(ls))

PoolContents == { join(ls) : ls \in UNION { [1..n -> LinePool] : n \in 0..MaxLines } }

\* the text and the metadata of the end-to-end scenario
ScenarioContent ==
    join(<< <<"#","#"," ","T","o","p","i","c">>,
            <<>>,
            <<"S","o","m","e"," ","i","n","t","r","o",".">>,
            <<>>,
            <<Backtick,Backtick,Backtick,"p","y","t","h","o","n">>,
            <<"p","r","i","n","t","(","'","h","i","'",")">>,
            <<Backtick,Backtick,Backtick>>,
            <<>>,
            <<"#","#"," ","R","e","f","e","r","e","n","c","e","s">>,
            <<"1","."," ","A","u","t","h","o","r"," ","A","."," ","(","2","0","2","0",")","."," ","T","i","t","l","e",".">> >>) \o <<"\n">>

ScenarioInfo == [university |-> <<"X"," ","U","n","i","v","e","r","s","i","t","y">>, subject |-> <<"Y">>]

NoInfo == [k \in {} |-> <<>>]

Infos == {NoInfo, ScenarioInfo}

Logos == {"none", "good", "bad"}

Dates == { <<"J","a","n","u","a","r","y"," ","0","1",","," ","2","0","2","6">>,
           <<"J","a","n","u","a","r","y"," ","0","2",","," ","2","0","2","6">> }

\* the clock counts steps of TickSeconds from 23:00 of the first date, so
\* that midnight is MidnightTick steps in
TickSeconds == 1800
MidnightTick == 2
MaxClock == 3

\* the clocks a first call can be made at: the last step of the first date
\* and the first step of the second
StartClocks == {MidnightTick - 1, MidnightTick}

\* line 170: datetime.now().strftime("%B %d, %Y") read at clock
strftime_now(clock) ==
    IF clock < MidnightTick
    THEN <<"J","a","n","u","a","r","y"," ","0","1",","," ","2","0","2","6">>
    ELSE <<"J","a","n","u","a","r","y"," ","0","2",","," ","2","0","2","6">>

\* a numbered line in a text with no references heading
NumberedOnly == <<"1","."," ","x">>

\* a heading of every level, 1 to 4, the last with bold and italic markup,
\* and a line of five '#'
HeadingsContent ==
    join(<< <<"#"," ","a">>, <<"#","#"," ","b">>, <<"#","#","#"," ","c">>,
            <<"#","#","#","#"," ","*","*","d","*","*"," ","*","e","*">>,
            <<"#","#","#","#","#"," ","f">> >>)

\* a references heading in bold, then a numbered line
RefsMarkupContent ==
    join(<< <<"#","#"," ","*","*","R","e","f","e","r","e","n","c","e","s","*","*">>, NumberedOnly >>)

\* a line of five '#', no whitespace and the singular word in upper case,
\* between two numbered lines
LooseRefsContent ==
    join(<< NumberedOnly, <<"#","#","#","#","#","R","E","F","E","R","E","N","C","E">>, NumberedOnly >>)

\* references headings of several levels, words and letter cases
RefsFormsContent ==
    join(<< <<"#"," ","b","i","b","l","i","o","g","r","a","p","h","y">>,
            <<"#","#","#","#"," ","R","E","F","E","R","E","N","C","E","S">>,
            <<"#","#","#"," ","R","e","f","e","r","e","n","c","e">> >>)

\* a code block of one line, then a code block that holds a references
\* heading, a blank line and an indented numbered line
FencedLinesContent ==
    join(<< <<Backtick,Backtick,Backtick>>,
            <<"a">>,
            <<Backtick,Backtick,Backtick>>,
            <<Backtick,Backtick,Backtick,"p","y">>,
            <<"#","#"," ","R","e","f","e","r","e","n","c","e","s">>,
            <<>>,
            <<" "," ","1","."," ","x">>,
            <<Backtick,Backtick,Backtick>> >>)

\* every pool text is rendered with one metadata record and no logo; a few
\* texts are rendered with every metadata record, logo and flag
Inputs ==
    { [content |-> c, info |-> NoInfo, refs |-> FALSE, logo |-> "none"] :
        c \in PoolContents }
    \cup
    { [content |-> c, info |-> i, refs |-> r, logo |-> l] :
        c \in {ScenarioContent, NumberedOnly, HeadingsContent,
                RefsMarkupContent, LooseRefsContent, RefsFormsContent,
                FencedLinesContent, <<>>},
        i \in Infos,
        r \in BOOLEAN, l \in Logos }

\* a metadata record with every key the cover page reads
FullInfo ==
    [university |-> <<"x"," ","U","n","i">>, subject |-> <<"S","u","b">>,
     name |-> <<"N","a","m">>, id |-> <<"4","2">>, program |-> <<"B","S">>,
     instructor |-> <<"D","r"," ","I">>, semester |-> <<"F","a","l","l">>]

\* FullInfo with any of its keys absent
CoverInfos == { [k \in ks |-> FullInfo[k]] : ks \in SUBSET (DOMAIN FullInfo) }

CoverInputs ==
    { [content |-> NumberedOnly, info |-> i, refs |-> FALSE, logo |-> "none"] :
        i \in CoverInfos }

----------------------------------------------------------------------------
(* create_pdf as a state machine *)

\* no call of parse_content_to_pdf is running: its locals do not exist
no_locals ==
    [in_code_block |-> FALSE, code_lines |-> <<>>, code_language |-> <<>>,
     in_references |-> FALSE, story |-> <<>>, raised |-> FALSE]

twin_idle ==
    [pc |-> "idle", lines |-> <<>>, idx |-> 0, st |-> no_locals,
     content |-> <<>>, logo |-> "none", page_count |-> 0, canvas |-> <<>>]

\* no call of create_pdf has made its styles yet
no_styles == [n \in {} |-> ""]

\* lines 139-150: the dictionary get_pdf_styles returns, each name with the
\* name of the ParagraphStyle made for it
get_pdf_styles ==
    [n \in StyleNames |->
        CASE n = "title" -> "Title"
          [] n = "subtitle" -> "Subtitle"
          [] n = "heading1" -> "Heading1"
          [] n = "heading2" -> "Heading2"
          [] n = "heading3" -> "Heading3"
          [] n = "body" -> "Body"
          [] n = "bullet" -> "Bullet"
          [] n = "numbered" -> "Numbered"
          [] n = "code" -> "Code"
          [] OTHER -> "Reference"]

\* the application has called nothing yet: nothing cached, no bytes held
session_start == [clock |-> 0, cache |-> {}, pdf_data |-> <<>>, called_at |-> 0]

new_buffer == [written |-> FALSE, pos |-> 0, returned |-> FALSE]

not_rendered == [fn |-> "none", out |-> <<>>]

\* the state a create_pdf call on one of the arguments ins starts from
InitWith(ins) ==
    /\ \E in \in ins :
        /\ student_info = in.info
        /\ assignment_content = in.content
        /\ include_refs = in.refs
        /\ logo_data = in.logo
    /\ pc = "start"
    /\ today = <<>>
    /\ doc_story = <<>>
    /\ lines = <<>>
    /\ idx = 0
    /\ in_code_block = FALSE
    /\ code_lines = <<>>
    /\ code_language = <<>>
    /\ in_references = FALSE
    /\ story = <<>>
    /\ page_count = 0
    /\ canvas = <<>>
    /\ buffer = new_buffer
    /\ twin = twin_idle
    /\ rendered = not_rendered
    /\ styles = no_styles
    /\ \E c \in StartClocks : session = [session_start EXCEPT !.clock = c]

Init == InitWith(Inputs)

\* lines 370-384: the buffer, the document template with its canvas still
\* to come, the styles and the cover page; datetime.now() is read here
CoverPage ==
    /\ pc = "start"
    /\ buffer' = new_buffer
    /\ page_count' = 0
    /\ canvas' = <<>>
    /\ styles' = get_pdf_styles
    /\ today' = strftime_now(session.clock)
    /\ doc_story' = create_cover_page(student_info, today')
    /\ pc' = "parse"
    /\ UNCHANGED <<inputVars, parserVars, twin, rendered, session>>

\* lines 286-292: the call of parse_content_to_pdf up to its loop
ParseBegin ==
    /\ pc = "parse"
    /\ lines' = splitlines(assignment_content)
    /\ idx' = 0
    /\ in_code_block' = parser_start.in_code_block
    /\ code_lines' = parser_start.code_lines
    /\ code_language' = parser_start.code_language
    /\ in_references' = parser_start.in_references
    /\ story' = parser_start.story
    /\ pc' = "parsing"
    /\ UNCHANGED <<inputVars, today, doc_story, buildVars, twin, rendered, styles, session>>

\* the references latch kept at module level: a call reads it as the other
\* call left it
locals_shared ==
    [in_code_block |-> in_code_block, code_lines |-> code_lines,
     code_language |-> code_language,
     in_references |-> in_references \/ twin.st.in_references,
     story |-> story, raised |-> FALSE]

\* the locals of the running parse_content_to_pdf call as one record
locals ==
    [in_code_block |-> in_code_block, code_lines |-> code_lines,
     code_language |-> code_language, in_references |-> in_references,
     story |-> story, raised |-> FALSE]

\* lines 294-358: one pass of the loop; an exception of create_code_block
\* leaves parse_content_to_pdf and create_pdf
ParseLine ==
    /\ pc = "parsing"
    /\ idx < Len(lines)
    /\ LET st == parse_line(locals, lines[idx + 1])
       IN  /\ in_code_block' = st.in_code_block
           /\ code_lines' = st.code_lines
           /\ code_language' = st.code_language
           /\ in_references' = st.in_references
           /\ story' = st.story
           /\ pc' = IF st.raised THEN "error" ELSE "parsing"
    /\ idx' = idx + 1
    /\ UNCHANGED <<inputVars, today, doc_story, lines, buildVars, twin, rendered, styles, session>>

\* create_pdf acting on its flag: without include_refs the reference items
\* are left out of the document
ParseReturn_if_refs ==
    /\ pc = "parsing"
    /\ idx = Len(lines)
    /\ doc_story' = doc_story \o
          (IF include_refs THEN story
           ELSE SelectSeq(story, LAMBDA e : e.style # "reference"))
    /\ pc' = "build"
    /\ UNCHANGED <<inputVars, today, parserVars, buildVars, twin, rendered, styles, session>>

\* line 360 and line 387: the loop is over, the story is returned and
\* create_pdf extends its own story with it
ParseReturn ==
    /\ pc = "parsing"
    /\ idx = Len(lines)
    /\ doc_story' = doc_story \o story
    /\ pc' = "build"
    /\ UNCHANGED <<inputVars, today, parserVars, buildVars, twin, rendered, styles, session>>

\* the fewest pages the layout can give the story: the cover page, and a
\* second page when anything but spacing follows its page break
min_pages(s) ==
    IF \E i \in 1..Len(s) : s[i].kind \notin {"Spacer", "PageBreak"} /\
          \E j \in 1..(i-1) : s[j].kind = "PageBreak"
    THEN 2 ELSE 1

\* doc.build, line 408: the layout has filled the pages so far and begins
\* the next physical page; the callback registered for it is due
BeginPage ==
    /\ pc = "build"
    /\ page_count < MaxPages
    /\ page_count' = page_count + 1
    /\ pc' = "decorate"
    /\ UNCHANGED <<inputVars, today, doc_story, parserVars, canvas, buffer, twin, rendered, styles, session>>

\* doc.build, line 408, and lines 389-406: the callback of the page just
\* begun runs, then the layout goes on placing the story on this page
DecoratePage ==
    /\ pc = "decorate"
    /\ LET callback == IF page_count = 1 THEN onFirstPage ELSE onLaterPages
           call == add_page_elements(page_count, logo_data)
       IN  IF callback = "add_page_elements"
           THEN /\ canvas' = canvas \o call.drawn
                /\ pc' = IF call.raised THEN "error" ELSE "build"
           ELSE /\ canvas' = canvas
                /\ pc' = "build"
    /\ UNCHANGED <<inputVars, today, doc_story, parserVars, page_count, buffer, twin, rendered, styles, session>>

\* create_pdf without line 409: the buffer is returned with its position
\* behind what doc.build wrote
FinishBuild_no_seek ==
    /\ pc = "build"
    /\ page_count >= min_pages(doc_story)
    /\ buffer' = [written |-> TRUE, pos |-> 1, returned |-> TRUE]
    /\ pc' = "done"
    /\ UNCHANGED <<inputVars, today, doc_story, parserVars, page_count, canvas, twin, rendered, styles, session>>

\* lines 408-410: the layout has placed the whole story, doc.build writes
\* the document to the buffer, the read position goes back to 0 and the
\* buffer is returned
FinishBuild ==
    /\ pc = "build"
    /\ page_count >= min_pages(doc_story)
    /\ buffer' = [written |-> TRUE, pos |-> 0, returned |-> TRUE]
    /\ pc' = "done"
    /\ UNCHANGED <<inputVars, today, doc_story, parserVars, page_count, canvas, twin, rendered, styles, session>>

Next ==
    \/ CoverPage
    \/ ParseBegin
    \/ ParseLine
    \/ ParseReturn
    \/ BeginPage
    \/ DecoratePage
    \/ FinishBuild

Spec == Init /\ [][Next]_vars

\* create_pdf called on a short text with every shape of the metadata
InitCover == InitWith(CoverInputs)

SpecCover == InitCover /\ [][Next]_vars

----------------------------------------------------------------------------
(* A second call of parse_content_to_pdf on the same text, stepped next to  *)
(* the first                                                                *)

TwinBegin ==
    /\ twin.pc = "idle"
    /\ pc \in {"parse", "parsing"}
    /\ twin' = [twin_idle EXCEPT !.pc = "parsing",
                                 !.content = assignment_content,
                                 !.lines = splitlines(assignment_content),
                                 !.st = parser_start]
    /\ UNCHANGED <<inputVars, pc, today, doc_story, parserVars, buildVars, rendered, styles, session>>

TwinLine ==
    /\ twin.pc = "parsing"
    /\ twin.idx < Len(twin.lines)
    /\ LET st == parse_line(twin.st, twin.lines[twin.idx + 1])
       IN  twin' = [twin EXCEPT !.st = st, !.idx = @ + 1,
                                !.pc = IF st.raised THEN "error" ELSE "parsing"]
    /\ UNCHANGED <<inputVars, pc, today, doc_story, parserVars, buildVars, rendered, styles, session>>

TwinReturn ==
    /\ twin.pc = "parsing"
    /\ twin.idx = Len(twin.lines)
    /\ twin' = [twin EXCEPT !.pc = "returned"]
    /\ UNCHANGED <<inputVars, pc, today, doc_story, parserVars, buildVars, rendered, styles, session>>

InitTwin ==
    /\ Init
    /\ assignment_content \in PoolContents
    /\ logo_data = "none"

NextTwin ==
    \/ CoverPage
    \/ ParseBegin
    \/ ParseLine
    \/ ParseReturn
    \/ TwinBegin
    \/ TwinLine
    \/ TwinReturn

SpecTwin == InitTwin /\ [][NextTwin]_vars

----------------------------------------------------------------------------
(* A second call of create_pdf on another text, its steps taken between    *)
(* the steps of the first in any order                                     *)

\* texts of two or three lines that differ in whether and where they latch
\* the references section and open a code block
PairContents ==
    { join(<< <<"#","#"," ","R","e","f","e","r","e","n","c","e","s">>, NumberedOnly >>),
      join(<< NumberedOnly, <<Backtick,Backtick,Backtick>>, <<"y">> >>),
      join(<< <<"-"," ","x">>, NumberedOnly >>) }

PairInputs ==
    { [content |-> c, info |-> NoInfo, refs |-> FALSE, logo |-> l] :
        c \in PairContents, l \in {"none", "good"} }

InitPair == InitWith(PairInputs)

\* lines 370-387 and 286-292: the other call up to the loop of its parser, on a text
\* that is not the text of the first call
OtherBegin ==
    /\ twin.pc = "idle"
    /\ \E in \in PairInputs :
        /\ in.content # assignment_content
        /\ twin' = [twin_idle EXCEPT !.pc = "parsing",
                                     !.content = in.content,
                                     !.logo = in.logo,
                                     !.lines = splitlines(in.content),
                                     !.st = parser_start]
    /\ UNCHANGED <<inputVars, pc, today, doc_story, parserVars, buildVars, rendered, styles, session>>

\* doc.build of the other call, line 408 and lines 389-406: its layout
\* begins the next page on its own canvas and the callback draws on it
OtherPage ==
    /\ twin.pc = "returned"
    /\ twin.page_count < MaxPages
    /\ LET n == twin.page_count + 1
           call == add_page_elements(n, twin.logo)
       IN  twin' = [twin EXCEPT !.page_count = n,
                                !.canvas = @ \o call.drawn,
                                !.pc = IF call.raised THEN "error" ELSE "returned"]
    /\ UNCHANGED <<inputVars, pc, today, doc_story, parserVars, buildVars, rendered, styles, session>>

\* lines 408-410 of the other call
OtherFinish ==
    /\ twin.pc = "returned"
    /\ twin.page_count >= min_pages(<<PageBreak>> \o twin.st.story)
    /\ twin' = [twin EXCEPT !.pc = "done"]
    /\ UNCHANGED <<inputVars, pc, today, doc_story, parserVars, buildVars, rendered, styles, session>>

NextPair ==
    \/ CoverPage
    \/ ParseBegin
    \/ ParseLine
    \/ ParseReturn
    \/ BeginPage
    \/ DecoratePage
    \/ FinishBuild
    \/ OtherBegin
    \/ TwinLine
    \/ TwinReturn
    \/ OtherPage
    \/ OtherFinish

SpecPair == InitPair /\ [][NextPair]_vars

----------------------------------------------------------------------------
(* src/hasi.py: the application calls create_pdf through create_pdf_cached, *)
(* one call after the other, while the clock goes on                        *)

\* src/hasi.py line 50: the seconds st.cache_data keeps a result
CACHE_TTL == 3600

\* a text that ends inside a code block after a references heading, a text
\* with a numbered line only, and a text whose empty code block raises
CallContents ==
    { join(<< <<"#","#"," ","R","e","f","e","r","e","n","c","e","s">>,
              <<Backtick,Backtick,Backtick,"p","y">>,
              <<"x">> >>),
      NumberedOnly,
      join(<< <<Backtick,Backtick,Backtick>>, <<Backtick,Backtick,Backtick>> >>) }

CallInputs ==
    { [content |-> c, info |-> NoInfo, refs |-> FALSE, logo |-> "none"] :
        c \in CallContents }

\* the arguments of the running call, which st.cache_data hashes to its key
cache_key ==
    [content |-> assignment_content, info |-> student_info,
     refs |-> include_refs, logo |-> logo_data]

\* src/hasi.py line 1095: buffer.getvalue(), the bytes of the document, as
\* the story laid out and what the callbacks drew on its pages
getvalue == [story |-> doc_story, canvas |-> canvas]

\* st.cache_data(ttl=CACHE_TTL): the entries of the cache for key that are
\* not older than the time to live at clock
cache_hits(cache, key, clock) ==
    { e \in cache : e.key = key /\ (clock - e.stored_at) * TickSeconds < CACHE_TTL }

InitCalls ==
    /\ student_info = NoInfo
    /\ assignment_content = <<>>
    /\ include_refs = FALSE
    /\ logo_data = "none"
    /\ pc = "app"
    /\ today = <<>>
    /\ doc_story = <<>>
    /\ lines = <<>>
    /\ idx = 0
    /\ in_code_block = FALSE
    /\ code_lines = <<>>
    /\ code_language = <<>>
    /\ in_references = FALSE
    /\ story = <<>>
    /\ page_count = 0
    /\ canvas = <<>>
    /\ buffer = new_buffer
    /\ twin = twin_idle
    /\ rendered = not_rendered
    /\ styles = no_styles
    /\ \E c \in StartClocks : session = [session_start EXCEPT !.clock = c]

\* src/hasi.py lines 1189 and 1091: the application calls create_pdf_cached;
\* st.cache_data answers from its cache when it holds a result for these
\* arguments that is young enough, and calls the function otherwise.  The
\* variables of the call before are what that call left in them.
CallCached ==
    /\ pc = "app"
    /\ \E in \in CallInputs :
        /\ student_info' = in.info
        /\ assignment_content' = in.content
        /\ include_refs' = in.refs
        /\ logo_data' = in.logo
        /\ LET hits == cache_hits(session.cache, in, session.clock)
           IN  IF hits # {}
               THEN /\ session' = [session EXCEPT
                                      !.pdf_data = <<(CHOOSE e \in hits : TRUE).value>>,
                                      !.called_at = session.clock]
                    /\ pc' = "app"
               ELSE /\ session' = [session EXCEPT !.pdf_data = <<>>,
                                                  !.called_at = session.clock]
                    /\ pc' = "start"
    /\ UNCHANGED <<today, doc_story, parserVars, buildVars, twin, rendered, styles>>

\* src/hasi.py lines 1094-1095 and 1091: create_pdf returned, its bytes are
\* stored under the arguments with the time, and given to the application
CacheStore ==
    /\ pc = "done"
    /\ session' = [session EXCEPT
                     !.cache = { e \in @ : e.key # cache_key }
                               \cup {[key |-> cache_key, value |-> getvalue,
                                      stored_at |-> session.clock]},
                     !.pdf_data = <<getvalue>>]
    /\ pc' = "app"
    /\ UNCHANGED <<inputVars, today, doc_story, parserVars, buildVars, twin, rendered, styles>>

\* the exception of create_pdf leaves create_pdf_cached: nothing is stored
\* and the application has no bytes
CallRaised ==
    /\ pc = "error"
    /\ pc' = "app"
    /\ UNCHANGED <<inputVars, today, doc_story, parserVars, buildVars, twin, rendered, styles, session>>

\* time passes between two calls
Tick ==
    /\ pc = "app"
    /\ session.clock < MaxClock
    /\ session' = [session EXCEPT !.clock = @ + 1]
    /\ UNCHANGED <<inputVars, pc, today, doc_story, parserVars, buildVars, twin, rendered, styles>>

NextCalls ==
    \/ CallCached
    \/ CoverPage
    \/ ParseBegin
    \/ ParseLine
    \/ ParseReturn
    \/ BeginPage
    \/ DecoratePage
    \/ FinishBuild
    \/ CacheStore
    \/ CallRaised
    \/ Tick

SpecCalls == InitCalls /\ [][NextCalls]_vars

----------------------------------------------------------------------------
(* The formatters called on one line of text *)

MaxTextLen == 4

\* a line with a bold, an italic and a code span
MixedLine == <<"*","*","b","o","l","d","*","*"," ","a","n","d"," ","*","i","t","a","l","i","c","*"," ","a","n","d"," ",Backtick,"c","o","d","e",Backtick>>

TextAlphabet == {Backtick, "*", "&", "<", ">", "a", " "}

\* prose that reads like the placeholder of the first code span, then a
\* code span
PlaceholderProseLine == <<"_","_","_","C","O","D","E","_","0","_","_","_"," ",Backtick,"x",Backtick>>

\* a code span whose literal reads like the placeholder of the second code
\* span, then a second code span
PlaceholderLiteralLine == <<Backtick,"_","_","_","C","O","D","E","_","1","_","_","_",Backtick," ",Backtick,"b",Backtick>>

\* a bold run with a code span inside it
BoldAroundCodeLine == <<"*","*","a"," ",Backtick,"x",Backtick," ","b","*","*">>

\* code spans whose literals hold asterisks
StarsInCodeLine == <<Backtick,"*","a","*",Backtick," ",Backtick,"*","*","b","*","*",Backtick>>

\* a run between two triples of asterisks
TripleStarLine == <<"*","*","*","a","*","*","*">>

InlineTexts ==
    UNION { [1..n -> TextAlphabet] : n \in 0..MaxTextLen }
    \cup { <<"<","s","c","r","i","p","t",">","&","a","m","p",";","<","/","s","c","r","i","p","t",">">>,
           <<Backtick>> \o <<"<","s","c","r","i","p","t",">","&","a","m","p",";","<","/","s","c","r","i","p","t",">">> \o <<Backtick>>,
           <<"a"," ",Backtick,"<","&",">",Backtick," ","b">>,
           MixedLine, PlaceholderProseLine, PlaceholderLiteralLine,
           BoldAroundCodeLine, StarsInCodeLine, TripleStarLine }

InitInline ==
    /\ assignment_content \in InlineTexts
    /\ student_info = NoInfo
    /\ include_refs = FALSE
    /\ logo_data = "none"
    /\ pc = "line"
    /\ today = <<>>
    /\ doc_story = <<>>
    /\ lines = <<>>
    /\ idx = 0
    /\ in_code_block = FALSE
    /\ code_lines = <<>>
    /\ code_language = <<>>
    /\ in_references = FALSE
    /\ story = <<>>
    /\ page_count = 0
    /\ canvas = <<>>
    /\ buffer = new_buffer
    /\ twin = twin_idle
    /\ rendered = not_rendered
    /\ styles = no_styles
    /\ session = session_start

\* process_inline_markdown called on the line
FormatInline ==
    /\ pc = "line"
    /\ rendered' = [fn |-> "process_inline_markdown",
                    out |-> process_inline_markdown(assignment_content)]
    /\ pc' = "formatted"
    /\ UNCHANGED <<inputVars, today, doc_story, parserVars, buildVars, twin, styles, session>>

\* the line rendered as a row of a code block, lines 248-254
FormatCodeRow ==
    /\ pc = "line"
    /\ rendered' = [fn |-> "code_row", out |-> code_row(assignment_content)[1].text]
    /\ pc' = "formatted"
    /\ UNCHANGED <<inputVars, today, doc_story, parserVars, buildVars, twin, styles, session>>

NextInline ==
    \/ FormatInline
    \/ FormatCodeRow

SpecInline == InitInline /\ [][NextInline]_vars

----------------------------------------------------------------------------
(* Properties of the parser *)

\* a code block in a story: the one-cell header table create_code_block puts
\* first
IsCodeHeader(e) ==
    /\ e.kind = "Table"
    /\ Len(e.rows) = 1
    /\ Len(e.rows[1]) = 1
    /\ e.rows[1][1].kind = "Paragraph"
    /\ startswith(e.rows[1][1].text, HeaderFontOpen)

CodeBlocks(s) == Cardinality({ i \in 1..Len(s) : IsCodeHeader(s[i]) })

FenceLines(ls) == Cardinality({ i \in 1..Len(ls) : is_fence(strip(ls[i])) })

\* the parser call is over: it returned its story or an exception left it
ParseOver == pc \in {"build", "done", "error"}

\* the step of the loop body that consumes line idx + 1
LineStep == pc = "parsing" /\ idx' = idx + 1

\* C1: fence balance.  When parse_content_to_pdf is over, its story holds
\* exactly floor(N/2) code blocks, N being the number of lines of the text
\* whose trimmed form starts with three backticks.
C1_FenceBalance == ParseOver => CodeBlocks(story) = FenceLines(lines) \div 2

\* C2: an unterminated fence is an implicit close.  When the parser returns
\* while it is still inside a code block, the story ends with the code block
\* made of the captured lines and the captured language tag.
C2_ImplicitClose ==
    (pc \in {"build", "done"} /\ in_code_block) =>
        LET block == create_code_block(code_lines, code_language)
        IN  /\ ~block.raised
            /\ Len(story) >= Len(block.elements)
            /\ SubSeq(story, Len(story) - Len(block.elements) + 1, Len(story))
                 = block.elements

\* C3: the references latch is monotonic.  in_references never goes from
\* true to false; the step that processes a references or bibliography
\* heading sets it; and once it is set, a line the parser reads as a
\* numbered-list line is emitted with the reference style and no element of
\* the numbered style is emitted any more.
C3_RefsLatch ==
    [][ /\ in_references => in_references'
        /\ LineStep =>
            LET stripped == strip(lines[idx + 1])
            IN  /\ (line_kind(in_code_block, lines[idx + 1]) = "references")
                      => in_references'
                /\ (in_references /\ ~in_code_block /\ numbered_match(stripped))
                      => story' = Append(story,
                            Paragraph(process_inline_markdown(stripped), "reference"))
                /\ in_references =>
                      \A i \in (Len(story) + 1)..Len(story') :
                          story'[i].style # "numbered"
      ]_vars

\* a references heading, then a sub-heading, then a reference item
C3_Witness ==
    \E i, j, k \in 1..Len(story) :
        /\ i < j /\ j < k
        /\ story[i] = Paragraph(<<"R","e","f","e","r","e","n","c","e","s">>, "heading1")
        /\ story[j].style = "heading2"
        /\ story[k].style = "reference"
        /\ in_references

\* C4: order and cardinality of blocks.  Outside a code block every line
\* that is not a fence adds exactly one element to the story, a closing
\* fence adds exactly one code block, an opening fence and a line inside a
\* code block add nothing, and what was emitted before stays in place.
C4_OrderCardinality ==
    [][ LineStep =>
          LET kind == line_kind(in_code_block, lines[idx + 1])
          IN  /\ SubSeq(story', 1, Len(story)) = story
              /\ kind \in {"blank", "references", "heading", "bullet",
                           "numbered", "paragraph"}
                    => Len(story') = Len(story) + 1
              /\ kind = "fence_close"
                    => /\ CodeBlocks(story') = CodeBlocks(story) + 1
                       /\ Len(story') > Len(story)
                       /\ IsCodeHeader(story'[Len(story) + 1])
              /\ kind \in {"fence_open", "code"} => story' = story
      ]_vars

\* C5: the parser is total.  No step ends in the error state, and a line
\* outside a code block that is no fence, blank, heading, bullet or numbered
\* line is emitted as a body paragraph of the trimmed line.
C5_ParserTotal ==
    [][ /\ pc' # "error"
        /\ (LineStep /\ line_kind(in_code_block, lines[idx + 1]) = "paragraph")
              => story' = Append(story,
                    Paragraph(process_inline_markdown(strip(lines[idx + 1])), "body"))
      ]_vars

----------------------------------------------------------------------------
(* Properties of the page callback and of the assembly *)

Labels == SelectSeq(canvas, LAMBDA d : d.op = "drawRightString")

Rules == SelectSeq(canvas, LAMBDA d : d.op = "line")

\* C7: page decoration universality.  At every point of doc.build, and when
\* it is done, the pages laid out so far carry the labels Page 1, Page 2,
\* ... in this order, one per page, and one footer rule per page.
C7_PageDecoration ==
    pc \in {"build", "done"} =>
        /\ Len(Labels) = page_count
        /\ Len(Rules) = page_count
        /\ \A i \in 1..page_count :
            /\ Labels[i].page = i
            /\ Labels[i].text = <<"P","a","g","e"," ">> \o str(i)
            /\ Rules[i].page = i

\* a finished document of three pages or more, two of them made by overflow
C7_Witness == pc = "done" /\ page_count >= 3 /\ Len(Labels) >= 3

\* C8: a logo that cannot be drawn is not fatal.  With such a logo every
\* page still gets its label and its rule, no logo is drawn, no error comes
\* out of the decoration, doc.build can always go on, and the call ends
\* with the written buffer returned at read position 0.
C8_LogoFailure ==
    logo_data = "bad" =>
        /\ \A i \in 1..Len(canvas) : canvas[i].op # "drawOn"
        /\ pc # "decorate" => (Len(Labels) = page_count /\ Len(Rules) = page_count)
        /\ pc = "error" => page_count = 0
        /\ pc = "decorate" => ENABLED DecoratePage
        /\ pc = "build" => ENABLED (BeginPage \/ FinishBuild)
        /\ pc = "done" => buffer = [written |-> TRUE, pos |-> 0, returned |-> TRUE]

\* a finished document of two pages or more whose logo could not be drawn
C8_Witness == logo_data = "bad" /\ pc = "done" /\ page_count >= 2

\* C10: the end-to-end scenario.  The story create_pdf hands to doc.build
\* has one page break, before it the cover with X UNIVERSITY and Y, right
\* after it the heading Topic, then exactly one code block with the header
\* PYTHON and the single row print('hi'), and at its end the References
\* heading and the only reference item, which begins with 1. Author A.
C10_EndToEnd ==
    (/\ assignment_content = ScenarioContent
     /\ student_info = ScenarioInfo
     /\ logo_data = "none"
     /\ pc \in {"build", "done"}) =>
        LET s == doc_story
            n == Len(s)
            breaks == { i \in 1..n : s[i] = PageBreak }
            heads == { i \in 1..n : IsCodeHeader(s[i]) }
        IN  /\ Cardinality(breaks) = 1
            /\ Cardinality(heads) = 1
            /\ LET brk == CHOOSE i \in breaks : TRUE
                   h == CHOOSE i \in heads : TRUE
               IN  /\ \E i \in 1..(brk - 1) :
                        s[i].kind = "Paragraph" /\ s[i].text = <<"X"," ","U","N","I","V","E","R","S","I","T","Y">>
                   /\ \E i \in 1..(brk - 1) :
                        s[i].kind = "Paragraph" /\ s[i].text = <<"Y">>
                   /\ s[brk + 1] = Paragraph(<<"T","o","p","i","c">>, "heading1")
                   /\ brk + 1 < h
                   /\ s[h].rows[1][1].text
                        = HeaderFontOpen \o <<" ","P","Y","T","H","O","N">> \o FontClose
                   /\ s[h + 1].kind = "Table"
                   /\ Len(s[h + 1].rows) = 1
                   /\ s[h + 1].rows[1][1].text
                        = CodeFontOpen \o <<"p","r","i","n","t","(","'","h","i","'",")">> \o FontClose
                   /\ h + 1 < n - 1
                   /\ s[n - 1] = Paragraph(<<"R","e","f","e","r","e","n","c","e","s">>, "heading1")
                   /\ s[n].kind = "Paragraph"
                   /\ s[n].style = "reference"
                   /\ startswith(s[n].text, <<"1","."," ","A","u","t","h","o","r"," ","A",".">>)
                   /\ { i \in (brk + 1)..n : s[i].style = "reference" } = {n}

\* the scenario rendered to the end
C10_Witness ==
    /\ assignment_content = ScenarioContent
    /\ student_info = ScenarioInfo
    /\ logo_data = "none"
    /\ pc = "done"
    /\ buffer.returned

----------------------------------------------------------------------------
(* Properties of the escaping *)

\* the entities read back, left to right, as a markup reader does
RECURSIVE Unescape(_)
Unescape(s) ==
    IF s = <<>> THEN <<>>
    ELSE IF startswith(s, Amp) THEN <<"&">> \o Unescape(Tail_from(s, Len(Amp) + 1))
    ELSE IF startswith(s, Lt) THEN <<"<">> \o Unescape(Tail_from(s, Len(Lt) + 1))
    ELSE IF startswith(s, Gt) THEN <<">">> \o Unescape(Tail_from(s, Len(Gt) + 1))
    ELSE <<s[1]>> \o Unescape(Tail(s))

EscapedOK(raw, esc) ==
    /\ \A i \in 1..Len(esc) : esc[i] \notin {"<", ">"}
    /\ \A i \in 1..Len(esc) :
          esc[i] = "&" => \E e \in {Amp, Lt, Gt} : startswith(Tail_from(esc, i), e)
    /\ Unescape(esc) = raw

\* index of the first place at or after from where p occurs in s, 0 if none
FindStr(s, p, from) ==
    IF \E k \in from..Len(s) : startswith(Tail_from(s, k), p)
    THEN CHOOSE k \in from..Len(s) :
            /\ startswith(Tail_from(s, k), p)
            /\ \A j \in from..(k - 1) : ~startswith(Tail_from(s, j), p)
    ELSE 0

\* the texts inside the monospace spans of a formatted line, in order
RECURSIVE CodeSpans(_)
CodeSpans(s) ==
    LET open == FindStr(s, InlineFontOpen, 1)
        body == open + Len(InlineFontOpen)
        close == IF open = 0 THEN 0 ELSE FindStr(s, InlineFontClose, body)
    IN  IF open = 0 \/ close = 0 THEN <<>>
        ELSE <<SubSeq(s, body, close - 1)>>
             \o CodeSpans(Tail_from(s, close + Len(InlineFontClose)))

\* C9: escaping of code text.  The text of a code-block row and the text of
\* every inline code span hold no raw '<' or '>', every '&' in them starts
\* one of the entities for '&', '<' and '>', and reading the entities back
\* gives the code line (a blank line: one space), respectively the literal
\* typed between the backticks.  The escaped text of a literal is what line
\* 215 computes; it is looked up in the spans of the output for the lines
\* without an underscore, where no typed text reads like a placeholder.
C9_Escaping ==
    /\ rendered.fn = "code_row" =>
        LET shown == IF strip(assignment_content) = <<>> THEN <<" ">>
                     ELSE assignment_content
            esc == SubSeq(rendered.out, Len(CodeFontOpen) + 1,
                          Len(rendered.out) - Len(FontClose))
        IN  /\ startswith(rendered.out, CodeFontOpen)
            /\ EscapedOK(shown, esc)
    /\ rendered.fn = "process_inline_markdown" =>
        LET literals == save_code(assignment_content, 0).code_snippets
            spans == CodeSpans(rendered.out)
        IN  /\ \A i \in 1..Len(literals) :
                    EscapedOK(literals[i], Escape(literals[i]))
            /\ (\A j \in 1..Len(assignment_content) : assignment_content[j] # "_")
                => /\ Len(spans) = Len(literals)
                   /\ \A i \in 1..Len(spans) : EscapedOK(literals[i], spans[i])

\* the script line of the spec formatted as an inline code literal
C9_Witness ==
    /\ rendered.fn = "process_inline_markdown"
    /\ assignment_content = <<Backtick>> \o <<"<","s","c","r","i","p","t",">","&","a","m","p",";","<","/","s","c","r","i","p","t",">">> \o <<Backtick>>
    /\ Len(CodeSpans(rendered.out)) = 1

----------------------------------------------------------------------------
(* Properties of a sequence of calls *)

\* parse_content_to_pdf run from its start over the lines ls
RECURSIVE run_lines(_, _)
run_lines(st, ls) ==
    IF ls = <<>> \/ st.raised THEN st
    ELSE run_lines(parse_line(st, ls[1]), Tail(ls))

\* the story of parse_content_to_pdf on a text, called on its own
StoryAlone(content) == run_lines(no_locals, splitlines(content)).story

\* C11: no state across calls.  In a sequence of calls every call starts its
\* parser outside a code block, with an empty code buffer and the references
\* latch unset, whatever the call before ended in, and the bytes a call
\* gives the application are those of the cover page with the date at that
\* call followed by the story of the text of that call, never bytes kept
\* from an earlier call.
C11_NoCrossCallState ==
    /\ pc = "parsing" /\ idx = 0 =>
          /\ ~in_code_block
          /\ code_lines = <<>>
          /\ ~in_references
          /\ story = <<>>
    /\ pc = "app" /\ session.pdf_data # <<>> =>
          session.pdf_data[1].story
              = create_cover_page(student_info, strftime_now(session.called_at))
                \o StoryAlone(assignment_content)

\* the labels Page 1, Page 2, ... Page n among what was drawn on a canvas
LabelsOf(cnv) == SelectSeq(cnv, LAMBDA d : d.op = "drawRightString")

PageLabels(n) == [i \in 1..n |-> <<"P","a","g","e"," ">> \o str(i)]

\* C12: concurrent renders.  Two create_pdf calls on different texts whose
\* steps are interleaved line by line and page by page each end with the
\* story their text gives when parsed on its own and with the labels
\* Page 1 ... Page n on their own n pages.
C12_ConcurrentRenders ==
    /\ pc = "done" =>
          /\ story = StoryAlone(assignment_content)
          /\ [i \in 1..Len(LabelsOf(canvas)) |-> LabelsOf(canvas)[i].text]
                = PageLabels(page_count)
    /\ twin.pc = "done" =>
          /\ twin.st.story = StoryAlone(twin.content)
          /\ [i \in 1..Len(LabelsOf(twin.canvas)) |-> LabelsOf(twin.canvas)[i].text]
                = PageLabels(twin.page_count)

\* both calls are done, one with a references section and reference items,
\* the other with a numbered item, on different numbers of pages
C12_Witness ==
    /\ pc = "done"
    /\ twin.pc = "done"
    /\ twin.content # assignment_content
    /\ twin.st.in_references
    /\ ~in_references
    /\ \E i \in 1..Len(story) : story[i].style = "numbered"
    /\ \E i \in 1..Len(twin.st.story) : twin.st.story[i].style = "reference"
    /\ twin.page_count # page_count

----------------------------------------------------------------------------
(* Properties of create_pdf and of the cover page *)

\* the parser returned and create_pdf holds the whole story
Assembled == pc \in {"build", "decorate", "done"}

\* line i of ls is outside every code block: an even number of fence lines
\* comes before it and it is no fence line itself
OutsideCode(ls, i) ==
    /\ ~is_fence(strip(ls[i]))
    /\ Cardinality({ j \in 1..(i - 1) : is_fence(strip(ls[j])) }) % 2 = 0

\* C13: include_refs is advisory only.  Whatever the flag, the story
\* create_pdf hands to doc.build is the cover page followed by the story of
\* the text, in which the flag has no part; the references latch is set
\* exactly when a references or bibliography heading line is in the text
\* outside a code block, and then the References heading is in the story;
\* and elements of the reference style are in the content only under the
\* latch.
C13_RefsFlagAdvisory ==
    Assembled =>
        /\ doc_story = create_cover_page(student_info, today)
                       \o StoryAlone(assignment_content)
        /\ in_references <=>
              \E i \in 1..Len(lines) :
                  OutsideCode(lines, i) /\ refs_match(strip(lines[i]))
        /\ in_references =>
              \E i \in 1..Len(story) :
                  story[i] = Paragraph(<<"R","e","f","e","r","e","n","c","e","s">>, "heading1")
        /\ (\E i \in 1..Len(story) : story[i].style = "reference") => in_references

\* the flag is off and the references section is formatted all the same
C13_Witness ==
    /\ pc = "done"
    /\ ~include_refs
    /\ in_references
    /\ \E i \in 12..Len(doc_story) : doc_story[i].style = "reference"

\* the assembly states: Accumulating while the story is collected, Laying
\* out while doc.build places it, Decorating while the callback of a page
\* runs, Done when the buffer is returned
Phase(p) ==
    CASE p \in {"start", "parse", "parsing"} -> "Accumulating"
      [] p = "build" -> "LayingOut"
      [] p = "decorate" -> "Decorating"
      [] p = "done" -> "Done"
      [] OTHER -> "Failed"

StrictRank(p) ==
    CASE Phase(p) = "Accumulating" -> 1
      [] Phase(p) = "LayingOut" -> 2
      [] Phase(p) = "Decorating" -> 3
      [] OTHER -> 4

\* Laying out and Decorating take turns, so they rank the same
PagedRank(p) ==
    CASE Phase(p) = "Accumulating" -> 1
      [] Phase(p) \in {"LayingOut", "Decorating"} -> 2
      [] OTHER -> 3

\* what every step of an assembly keeps, whatever the order of its states:
\* the story is whole when the layout starts and does not change after, the
\* callback of a page adds the one label of that page, the buffer is
\* returned only in Done at read position 0, and a failed assembly returns
\* no buffer
AssemblyStep ==
    /\ (Phase(pc) = "Accumulating" /\ Phase(pc') = "LayingOut")
          => doc_story' = create_cover_page(student_info, today) \o story
    /\ Phase(pc) \in {"LayingOut", "Decorating"} => doc_story' = doc_story
    /\ Phase(pc) = "Decorating" /\ Phase(pc') # "Failed"
          => /\ Len(LabelsOf(canvas')) = Len(LabelsOf(canvas)) + 1
             /\ LabelsOf(canvas')[Len(LabelsOf(canvas'))].page = page_count
    /\ Phase(pc) # "Decorating" => LabelsOf(canvas') = LabelsOf(canvas)
    /\ Phase(pc') \in {"LayingOut", "Done"} => Len(LabelsOf(canvas')) = page_count'
    /\ buffer'.returned <=> Phase(pc') = "Done"
    /\ buffer'.returned => buffer'.pos = 0
    /\ Phase(pc') = "Failed" => ~buffer'.returned

\* C14 as stated: the assembly goes through Accumulating, Laying out,
\* Decorating and Done in this order and never back, with the story whole
\* before the layout, one decoration per page, the buffer returned only in
\* Done at read position 0 and no buffer returned on failure.
C14_StrictOrder ==
    [][ /\ (Phase(pc) # "Failed" /\ Phase(pc') # "Failed")
              => StrictRank(pc') >= StrictRank(pc)
        /\ AssemblyStep
      ]_vars

\* C14, amended: the assembly starts in Accumulating, never returns to it
\* once the layout started, and ends in Done; in between Laying out and
\* Decorating take turns page by page: the layout begins a page, the
\* callback of that page runs once, and the layout goes on.  The story is
\* whole before the layout, the buffer is returned only in Done at read
\* position 0, and no buffer is returned on failure.
C14_PagedOrder ==
    [][ /\ (Phase(pc) # "Failed" /\ Phase(pc') # "Failed")
              => PagedRank(pc') >= PagedRank(pc)
        /\ Phase(pc) = "LayingOut" => Phase(pc') \in {"Decorating", "Done"}
        /\ Phase(pc) = "Decorating" => Phase(pc') \in {"LayingOut", "Failed"}
        /\ Phase(pc) = "LayingOut" /\ Phase(pc') = "Decorating"
              => page_count' = page_count + 1
        /\ page_count' # page_count => Phase(pc') = "Decorating"
        /\ AssemblyStep
      ]_vars

\* a document of content and two pages or more is done: the layout went on
\* after the decoration of its first page
C14_Witness ==
    /\ pc = "done"
    /\ buffer.returned
    /\ page_count >= 2
    /\ Len(LabelsOf(canvas)) = page_count
    /\ Len(doc_story) > Len(create_cover_page(student_info, today))

\* the cover of a story: its elements up to the first page break, and what
\* of it is not spacing
CoverLen == IF \E i \in 1..Len(doc_story) : doc_story[i] = PageBreak
            THEN CHOOSE i \in 1..Len(doc_story) :
                    /\ doc_story[i] = PageBreak
                    /\ \A j \in 1..(i - 1) : doc_story[j] # PageBreak
            ELSE 0

CoverShown ==
    SelectSeq(SubSeq(doc_story, 1, CoverLen), LAMBDA e : e.kind # "Spacer")

\* the labels of the cover table and the metadata key shown next to each
CoverLabels ==
    << <<"S","t","u","d","e","n","t"," ","N","a","m","e",":">>,
       <<"S","t","u","d","e","n","t"," ","I","D",":">>,
       <<"P","r","o","g","r","a","m",":">>,
       <<"I","n","s","t","r","u","c","t","o","r",":">>,
       <<"S","e","m","e","s","t","e","r"," ","/"," ","T","e","r","m",":">>,
       <<"S","u","b","m","i","s","s","i","o","n"," ","D","a","t","e",":">> >>

CoverKeys == <<"name", "id", "program", "instructor", "semester">>

\* the cover page has been made
CoverMade == pc \notin {"start", "app", "line", "formatted"}

\* C15: the cover layout.  The cover is, in this order and spacing apart,
\* the institution in upper case, the line ACADEMIC ASSIGNMENT, the
\* subject, one table of exactly six rows of a label and a value (name,
\* identifier, program, instructor, term, submission date, each value the
\* metadata given and the date of the call), the rule of underscores, and
\* as its last element the page break; and in the story create_pdf hands to
\* doc.build the content of the text comes after all of it.
C15_CoverLayout ==
    CoverMade =>
        LET c == CoverShown IN
        /\ CoverLen > 0
        /\ Len(c) = 6
        /\ c[1].kind = "Paragraph"
        /\ c[1].text = upper(c[1].text)
        /\ "university" \in DOMAIN student_info
              => c[1].text = upper(student_info["university"])
        /\ c[2] = Paragraph(<<"A","C","A","D","E","M","I","C"," ","A","S","S","I","G","N","M","E","N","T">>, "subtitle")
        /\ c[3].kind = "Paragraph"
        /\ "subject" \in DOMAIN student_info => c[3].text = student_info["subject"]
        /\ c[4].kind = "Table"
        /\ Len(c[4].rows) = 6
        /\ \A r \in 1..6 :
              /\ Len(c[4].rows[r]) = 2
              /\ c[4].rows[r][1].text = CoverLabels[r]
        /\ \A r \in 1..5 :
              CoverKeys[r] \in DOMAIN student_info
                  => c[4].rows[r][2].text = student_info[CoverKeys[r]]
        /\ c[4].rows[6][2].text = today
        /\ c[5] = Paragraph([i \in 1..80 |-> "_"], "reference")
        /\ c[6] = PageBreak
        /\ Assembled => SubSeq(doc_story, CoverLen + 1, Len(doc_story)) = story

\* a document with every metadata field given is done, its one content
\* element right behind the page break of the cover
C15_Witness ==
    /\ pc = "done"
    /\ student_info = FullInfo
    /\ CoverLen > 0
    /\ Len(doc_story) = CoverLen + 1
    /\ doc_story[CoverLen + 1].style = "numbered"

\* C16 as stated: without the institution or without the subject the cover
\* shows a default text that is not empty in its place; without the name,
\* the identifier, the program, the instructor or the term the value shown
\* is N/A or the empty string; and the call does not fail.
C16_DefaultsNonEmpty ==
    /\ pc # "error"
    /\ CoverMade =>
        LET c == CoverShown IN
        /\ Len(c) = 6
        /\ "university" \notin DOMAIN student_info => c[1].text # <<>>
        /\ "subject" \notin DOMAIN student_info => c[3].text # <<>>
        /\ \A r \in 1..5 :
              CoverKeys[r] \notin DOMAIN student_info
                  => c[4].rows[r][2].text \in {<<"N","/","A">>, <<>>}

\* C16, amended: without the institution the cover shows UNIVERSITY,
\* without the subject an empty subject line, without the name, the
\* identifier or the program an empty value, without the instructor or the
\* term N/A; and the call does not fail.
C16_Defaults ==
    /\ pc # "error"
    /\ CoverMade =>
        LET c == CoverShown IN
        /\ Len(c) = 6
        /\ "university" \notin DOMAIN student_info
              => c[1].text = <<"U","N","I","V","E","R","S","I","T","Y">>
        /\ "subject" \notin DOMAIN student_info => c[3].text = <<>>
        /\ \A r \in 1..3 :
              CoverKeys[r] \notin DOMAIN student_info => c[4].rows[r][2].text = <<>>
        /\ \A r \in 4..5 :
              CoverKeys[r] \notin DOMAIN student_info
                  => c[4].rows[r][2].text = <<"N","/","A">>

\* a document with no metadata at all is done
C16_Witness ==
    /\ pc = "done"
    /\ DOMAIN student_info = {}
    /\ Len(CoverShown) = 6
    /\ CoverShown[4].rows[4][2].text = <<"N","/","A">>

----------------------------------------------------------------------------
(* Properties of the style registry *)

\* the names of the styles the paragraphs of a list of elements were made
\* with, those inside the cells of its tables included
RECURSIVE StylesUsed(_)
StylesUsed(es) ==
    UNION { IF es[i].kind = "Paragraph" THEN {es[i].style}
            ELSE IF es[i].kind = "Table"
            THEN UNION { StylesUsed(es[i].rows[r]) : r \in 1..Len(es[i].rows) }
            ELSE {} : i \in 1..Len(es) }

\* C17: the style registry.  The dictionary a call gets from get_pdf_styles
\* has exactly the ten names title, subtitle, heading1, heading2, heading3,
\* body, bullet, numbered, code and reference; every style a paragraph of
\* the cover page, of the content or of a code block was made with is one
\* of them; and no step of the call changes the dictionary once it is
\* made.
C17_StyleRegistry ==
    [][ /\ CoverMade' =>
              /\ DOMAIN styles' = {"title", "subtitle", "heading1", "heading2",
                                   "heading3", "body", "bullet", "numbered",
                                   "code", "reference"}
              /\ StylesUsed(doc_story') \subseteq DOMAIN styles'
              /\ StylesUsed(story') \subseteq DOMAIN styles'
        /\ CoverMade => styles' = styles
      ]_vars

\* a document with headings of the three heading styles is done
C17_Witness ==
    /\ pc = "done"
    /\ {"title", "subtitle", "reference", "heading1", "heading2", "heading3"}
          \subseteq StylesUsed(doc_story)
    /\ DOMAIN styles = StyleNames

----------------------------------------------------------------------------
(* Properties of the inline formatter and of the fences and headings *)

\* C18: bold and italic do not collide.  The line with the bold span bold,
\* the italic span italic and the code span code, joined by the word and,
\* is formatted as one bold span holding bold, the plain word and, one
\* italic span holding italic, the plain word and, and one monospace span
\* holding code, in this order, with no asterisk and no backtick left.
C18_BoldItalicCode ==
    (rendered.fn = "process_inline_markdown" /\ assignment_content = MixedLine) =>
        /\ rendered.out
             = <<"<","b",">","b","o","l","d","<","/","b",">">>
               \o <<" ","a","n","d"," ">>
               \o <<"<","i",">","i","t","a","l","i","c","<","/","i",">">>
               \o <<" ","a","n","d"," ">>
               \o InlineFontOpen \o <<"c","o","d","e">> \o InlineFontClose
        /\ \A i \in 1..Len(rendered.out) : rendered.out[i] \notin {"*", Backtick}

\* the line has been formatted and its one code span holds code
C18_Witness ==
    /\ rendered.fn = "process_inline_markdown"
    /\ assignment_content = MixedLine
    /\ CodeSpans(rendered.out) = << <<"c","o","d","e">> >>

\* C19: the closing fence is matched exactly.  Inside a code block a line
\* whose trimmed form is the three backticks and nothing else closes the
\* block, and every other line, one that starts with three backticks and
\* goes on included, is appended as it is to the code buffer, adds nothing
\* to the story and leaves the parser inside the code block.
C19_ExactClosingFence ==
    [][ (LineStep /\ in_code_block /\ pc' # "error") =>
          IF strip(lines[idx + 1]) = Fence
          THEN ~in_code_block'
          ELSE /\ in_code_block'
               /\ code_lines' = Append(code_lines, lines[idx + 1])
               /\ story' = story
      ]_vars

\* C20: the references heading with markup.  Outside a code block, a
\* heading line of level 1 to 4 whose text, markup taken off, is references
\* or bibliography in any case sets in_references and adds the References
\* heading to the story.
C20_RefsHeadingMarkup ==
    [][ (/\ LineStep
         /\ ~in_code_block
         /\ heading_match(strip(lines[idx + 1]))
         /\ lower(heading_text(strip(lines[idx + 1])))
               \in { <<"r","e","f","e","r","e","n","c","e","s">>,
                     <<"b","i","b","l","i","o","g","r","a","p","h","y">> })
          => /\ in_references'
             /\ story' = Append(story,
                   Paragraph(<<"R","e","f","e","r","e","n","c","e","s">>, "heading1"))
      ]_vars

----------------------------------------------------------------------------
(* Properties of the references heading and of the heading levels *)

\* s is a run of one or more '#', then any whitespace, then one of the
\* words, in any letter case, up to its end
HashesThenWord(s, words) ==
    \E h \in 1..Len(s) : \E b \in (h + 1)..Len(s) :
        /\ \A i \in 1..h : s[i] = "#"
        /\ \A i \in (h + 1)..(b - 1) : s[i] \in Whitespace
        /\ lower(SubSeq(s, b, Len(s))) \in words

\* C21 as stated: in_references changes only on a line that matches the
\* heading pattern of one to four '#', whitespace and text, and whose
\* heading text is references or bibliography in any letter case.
C21_LatchOnlyByHeading ==
    [][ (LineStep /\ in_references' # in_references) =>
          /\ ~in_code_block
          /\ heading_match(strip(lines[idx + 1]))
          /\ lower(heading_text(strip(lines[idx + 1])))
                \in { <<"r","e","f","e","r","e","n","c","e","s">>,
                      <<"b","i","b","l","i","o","g","r","a","p","h","y">> }
      ]_vars

\* C21, amended: in_references changes only from false to true, and a line
\* sets it exactly when the line is outside a code block and its trimmed
\* form is one or more '#' (more than four included), any whitespace (none
\* included), and then reference, references or bibliography in any letter
\* case up to the end of the line.
C21_LatchOnlyByRefsLine ==
    [][ LineStep =>
          /\ in_references => in_references'
          /\ (~in_references /\ in_references' /\ pc' # "error")
                <=> /\ ~in_references
                    /\ ~in_code_block
                    /\ HashesThenWord(strip(lines[idx + 1]),
                          { <<"r","e","f","e","r","e","n","c","e">>,
                            <<"r","e","f","e","r","e","n","c","e","s">>,
                            <<"b","i","b","l","i","o","g","r","a","p","h","y">> })
      ]_vars

\* the line of five '#' and the singular word has set the latch: the
\* numbered line before it has the numbered style, the one after it the
\* reference style
C21_Witness ==
    /\ assignment_content = LooseRefsContent
    /\ pc = "done"
    /\ in_references
    /\ story[1].style = "numbered"
    /\ story[3].style = "reference"

RefsHeadingWords ==
    { <<"r","e","f","e","r","e","n","c","e">>,
      <<"r","e","f","e","r","e","n","c","e","s">>,
      <<"b","i","b","l","i","o","g","r","a","p","h","y">> }

CanonicalRefsHeading == Paragraph(<<"R","e","f","e","r","e","n","c","e","s">>, "heading1")

\* C22: the references heading is canonical.  Every line outside a code
\* block that the parser takes for a references heading (a run of '#', any
\* whitespace, then reference, references or bibliography in any letter
\* case) adds exactly one element to the story: the heading References in
\* the heading1 style, whatever the level, the letter case and the word of
\* the line.
C22_CanonicalRefsHeading ==
    [][ (/\ LineStep
         /\ ~in_code_block
         /\ HashesThenWord(strip(lines[idx + 1]), RefsHeadingWords))
          => story' = Append(story, CanonicalRefsHeading)
      ]_vars

\* three references headings of levels 1, 4 and 3, in lower case, in upper
\* case and in the singular, gave the canonical heading three times
C22_Witness ==
    /\ assignment_content = RefsFormsContent
    /\ pc = "done"
    /\ story = <<CanonicalRefsHeading, CanonicalRefsHeading, CanonicalRefsHeading>>

\* the number of '#' a line starts with
Hashes(s) ==
    IF \A i \in 1..Len(s) : s[i] = "#" THEN Len(s)
    ELSE (CHOOSE i \in 1..Len(s) : s[i] # "#" /\ \A j \in 1..(i - 1) : s[j] = "#") - 1

\* s without its first n characters and the whitespace after them
AfterMarker(s, n) ==
    IF \A i \in (n + 1)..Len(s) : s[i] \in Whitespace THEN <<>>
    ELSE SubSeq(s, CHOOSE i \in (n + 1)..Len(s) :
                      s[i] \notin Whitespace
                      /\ \A j \in (n + 1)..(i - 1) : s[j] \in Whitespace,
                Len(s))

\* C23: the heading levels.  Outside a code block, a line that is no
\* references heading and whose trimmed form is k '#', 1 <= k <= 4, then
\* whitespace, then text, adds exactly one element to the story: a
\* paragraph of that text with every asterisk removed, in the heading1
\* style for k = 1 and k = 2, heading2 for k = 3 and heading3 for k = 4.
\* Such a line with five '#' or more adds no heading: it is a body
\* paragraph of the whole trimmed line.
C23_HeadingLevels ==
    [][ (/\ LineStep
         /\ ~in_code_block
         /\ ~HashesThenWord(strip(lines[idx + 1]), RefsHeadingWords)
         /\ Hashes(strip(lines[idx + 1])) >= 1) =>
          LET s == strip(lines[idx + 1])
              k == Hashes(s)
          IN  /\ (k <= 4 /\ Len(s) > k /\ s[k + 1] \in Whitespace) =>
                    story' = Append(story,
                        Paragraph(SelectSeq(AfterMarker(s, k), LAMBDA c : c # "*"),
                                  CASE k \in {1, 2} -> "heading1"
                                    [] k = 3 -> "heading2"
                                    [] OTHER -> "heading3"))
              /\ k >= 5 =>
                    story' = Append(story, Paragraph(process_inline_markdown(s), "body"))
      ]_vars

\* the headings of levels 1 to 4 and the line of five '#' are in the story
C23_Witness ==
    /\ assignment_content = HeadingsContent
    /\ pc = "done"
    /\ Len(story) = 5
    /\ story[1].style = "heading1"
    /\ story[2].style = "heading1"
    /\ story[3].style = "heading2"
    /\ story[4] = Paragraph(<<"d"," ","e">>, "heading3")
    /\ story[5] = Paragraph(<<"#","#","#","#","#"," ","f">>, "body")

----------------------------------------------------------------------------
(* Properties of the inline formatter: code spans, bold, italic *)

\* C24: code spans are protected.  The formatted line has one monospace span
\* for each backtick-delimited span of the line, in order, and its text is
\* the literal typed between the backticks with only '&', '<' and '>'
\* replaced by their entities: asterisks and everything else in it are as
\* typed.
C24_CodeSpansProtected ==
    rendered.fn = "process_inline_markdown" =>
        LET literals == save_code(assignment_content, 0).code_snippets
            spans == CodeSpans(rendered.out)
        IN  /\ Len(spans) = Len(literals)
            /\ \A i \in 1..Len(spans) : spans[i] = Escape(literals[i])

BoldOpen == <<"<", "b", ">">>
BoldClose == <<"<", "/", "b", ">">>
ItalicOpen == <<"<", "i", ">">>
ItalicClose == <<"<", "/", "i", ">">>

\* the texts inside the bold spans of a formatted line, in order
RECURSIVE BoldSpans(_)
BoldSpans(s) ==
    LET open == FindStr(s, BoldOpen, 1)
        body == open + Len(BoldOpen)
        close == IF open = 0 THEN 0 ELSE FindStr(s, BoldClose, body)
    IN  IF open = 0 \/ close = 0 THEN <<>>
        ELSE <<SubSeq(s, body, close - 1)>>
             \o BoldSpans(Tail_from(s, close + Len(BoldClose)))

\* C25 as stated: a bold run never spans a placeholder, so in the formatted
\* line no monospace span lies inside a bold span.
C25_BoldStopsAtCode ==
    rendered.fn = "process_inline_markdown" =>
        LET bolds == BoldSpans(rendered.out)
        IN  \A i \in 1..Len(bolds) : FindStr(bolds[i], InlineFontOpen, 1) = 0

\* a line that is one double-asterisk pair around a text without asterisks
\* and underscores
IsBoldAround(text) ==
    /\ Len(text) >= 5
    /\ SubSeq(text, 1, 2) = <<"*", "*">>
    /\ SubSeq(text, Len(text) - 1, Len(text)) = <<"*", "*">>
    /\ \A j \in 3..(Len(text) - 2) : text[j] \notin {"*", "_"}

\* C25, amended: a bold run may span a placeholder.  A double-asterisk pair
\* around a text without asterisks makes that whole text bold, the code
\* spans in it included, each restored inside the bold span as its monospace
\* span; and no bold tag is ever produced inside a monospace span.
C25_BoldSpansCode ==
    rendered.fn = "process_inline_markdown" =>
        /\ IsBoldAround(assignment_content) =>
              rendered.out =
                 BoldOpen
                 \o process_inline_markdown(
                       SubSeq(assignment_content, 3, Len(assignment_content) - 2))
                 \o BoldClose
        /\ assignment_content = BoldAroundCodeLine =>
              rendered.out =
                 BoldOpen \o <<"a", " ">> \o InlineFontOpen \o <<"x">>
                 \o InlineFontClose \o <<" ", "b">> \o BoldClose
        /\ LET spans == CodeSpans(rendered.out)
           IN  \A i \in 1..Len(spans) :
                  /\ FindStr(spans[i], BoldOpen, 1) = 0
                  /\ FindStr(spans[i], BoldClose, 1) = 0

C25_Witness ==
    /\ rendered.fn = "process_inline_markdown"
    /\ assignment_content = BoldAroundCodeLine
    /\ Len(BoldSpans(rendered.out)) = 1
    /\ CodeSpans(BoldSpans(rendered.out)[1]) = << <<"x">> >>

\* a formatted line with its bold and italic tags written back as the
\* asterisks they were made from
Unmark(out) ==
    replace_str(replace_str(replace_str(replace_str(out,
        BoldOpen, <<"*", "*">>), BoldClose, <<"*", "*">>),
        ItalicOpen, <<"*">>), ItalicClose, <<"*">>)

----------------------------------------------------------------------------
(* Properties of code blocks *)

\* C27: code block rendering.  For every language tag and every number n >= 0
\* of captured lines, the step of the closing fence does not raise and adds
\* to the story a header showing the tag in upper case, CODE for no tag, and
\* a table of exactly n rows, the i-th made from the i-th captured line: one
\* space for a line that is empty or only whitespace, and every other line as
\* it was captured, leading whitespace included, with only the escaping
\* applied.
C27_CodeBlockRendering ==
    [][ (LineStep /\ line_kind(in_code_block, lines[idx + 1]) = "fence_close") =>
          LET n == Len(code_lines)
              label == IF code_language = <<>> THEN <<"C","O","D","E">>
                       ELSE upper(code_language)
              added == SubSeq(story', Len(story) + 1, Len(story'))
          IN  /\ pc' # "error"
              /\ Len(added) >= 2
              /\ added[1] = Table(<< << Paragraph(
                     HeaderFontOpen \o <<" ">> \o label \o FontClose, "code") >> >>)
              /\ added[2].kind = "Table"
              /\ Len(added[2].rows) = n
              /\ \A i \in 1..n :
                    LET shown == IF strip(code_lines[i]) = <<>> THEN <<" ">>
                                 ELSE code_lines[i]
                    IN  added[2].rows[i] = << Paragraph(
                            CodeFontOpen \o Escape(shown) \o FontClose, "code") >>
      ]_vars

----------------------------------------------------------------------------
(* Properties of the markup the inline formatter returns *)

\* a formatted line without the tags and entities the formatter writes
WithoutGenerated(out) ==
    replace_str(replace_str(replace_str(replace_str(replace_str(replace_str(
    replace_str(replace_str(replace_str(out,
        InlineFontOpen, <<>>), InlineFontClose, <<>>),
        BoldOpen, <<>>), BoldClose, <<>>),
        ItalicOpen, <<>>), ItalicClose, <<>>),
        Amp, <<>>), Lt, <<>>), Gt, <<>>)

\* C28: the formatted line is safe markup.  Every '<', '>' and '&' of the
\* output belongs to a bold, italic or font tag or to one of the three
\* entities the formatter writes: with those taken away none is left, so no
\* such character typed in prose reaches the paragraph renderer.
C28_SafeMarkup ==
    rendered.fn = "process_inline_markdown" =>
        LET rest == WithoutGenerated(rendered.out)
        IN  \A k \in 1..Len(rest) : rest[k] \notin {"<", ">", "&"}

----------------------------------------------------------------------------
(* Properties of the lines inside a fence *)

\* the number of the last of the first n lines whose trimmed form starts
\* with three backticks, 0 when there is none
LastFence(n) ==
    IF \E j \in 1..n : is_fence(strip(lines[j]))
    THEN CHOOSE j \in 1..n :
            /\ is_fence(strip(lines[j]))
            /\ \A k \in (j + 1)..n : ~is_fence(strip(lines[k]))
    ELSE 0

\* C29: lines inside a fenced code block are opaque to the rest of the
\* parser.  While in_code_block is true no step changes in_references; a
\* line that is not a fence is appended as it is, untrimmed, to the buffer,
\* adds nothing to the story and leaves the parser inside the block; the
\* fence that closes the block adds the code block of the buffer and nothing
\* else.  An opening fence leaves an empty buffer, and inside a block the
\* buffer is exactly the lines read since the fence that opened it, so a
\* block holds no line captured for an earlier block.
C29_FenceOpaque ==
    [][ LineStep =>
          LET line == lines[idx + 1]
              fence == is_fence(strip(line))
          IN  /\ in_code_block =>
                    /\ in_references' = in_references
                    /\ ~fence => /\ story' = story
                                 /\ code_lines' = Append(code_lines, line)
                                 /\ in_code_block'
                    /\ (fence /\ pc' # "error") =>
                          story' = story \o
                             create_code_block(code_lines, code_language).elements
              /\ (~in_code_block /\ fence) => (in_code_block' /\ code_lines' = <<>>)
              /\ in_code_block' =>
                    code_lines' = SubSeq(lines, LastFence(idx + 1) + 1, idx + 1)
      ]_vars

\* inside the second block of the text: the buffer holds the references
\* heading, the blank line and the indented numbered line as they were
\* typed, the story holds the first block only, and in_references is false
C29_Witness ==
    /\ pc = "parsing"
    /\ in_code_block
    /\ ~in_references
    /\ code_lines = << <<"#","#"," ","R","e","f","e","r","e","n","c","e","s">>,
                       <<>>,
                       <<" "," ","1","."," ","x">> >>
    /\ CodeBlocks(story) = 1
    /\ Len(story) = Len(create_code_block(<< <<"a">> >>, <<>>).elements)

----------------------------------------------------------------------------
(* Properties of the placeholders of the inline formatter *)

\* a line without its backtick-delimited spans: what was typed outside them
RECURSIVE Prose(_)
Prose(s) ==
    IF s = <<>> THEN <<>>
    ELSE LET k == FirstIn(s, 2, {Backtick})
         IN  IF s[1] = Backtick /\ k <= Len(s) /\ k >= 3
             THEN Prose(Tail_from(s, k + 1))
             ELSE <<s[1]>> \o Prose(Tail(s))

\* a formatted line without its monospace spans
RECURSIVE WithoutSpans(_)
WithoutSpans(s) ==
    LET open == FindStr(s, InlineFontOpen, 1)
        body == open + Len(InlineFontOpen)
        close == IF open = 0 THEN 0 ELSE FindStr(s, InlineFontClose, body)
    IN  IF open = 0 \/ close = 0 THEN s
        ELSE SubSeq(s, 1, open - 1)
             \o WithoutSpans(Tail_from(s, close + Len(InlineFontClose)))

\* C30: placeholder restoration is exact.  For a line with k
\* backtick-delimited spans the formatted line has exactly k monospace
\* spans, the i-th holding the i-th recorded literal; what is outside the
\* monospace spans is what was typed outside the backticks, emphasis
\* resolved, so typed text that reads like a placeholder is not replaced by a
\* code literal; and no placeholder is left outside the spans that was not
\* typed there.
C30_ExactRestoration ==
    rendered.fn = "process_inline_markdown" =>
        LET literals == save_code(assignment_content, 0).code_snippets
            k == Len(literals)
            spans == CodeSpans(rendered.out)
            outside == WithoutSpans(rendered.out)
            typed == Prose(assignment_content)
        IN  /\ Len(spans) = k
            /\ \A i \in 1..k : spans[i] = Escape(literals[i])
            /\ Unmark(outside) = typed
            /\ \A i \in 0..(k - 1) :
                  FindStr(outside, Placeholder(i), 1) # 0
                     => FindStr(typed, Placeholder(i), 1) # 0

====
